---- MODULE Spec2Model ----
(***************************************************************************)
(* Model of bblocks/fetch.py: the register -> pygeoapi resource pipeline.  *)
(*                                                                         *)
(* Strings are sequences of tokens.  A token is one character ("." "_"     *)
(* "-", a digit, an unsafe character) or a run of letters that the code    *)
(* never splits ("ogc", "site").  A path is a sequence of names (token     *)
(* sequences), relative to data_dir.                                       *)
(*                                                                         *)
(* A resource descriptor keeps its type, bbox, provider data and           *)
(* bblocks_register tag.  Title, description, keywords, the linked-data    *)
(* block, the stac_extensions list and the rewriting of asset hrefs only   *)
(* change the contents of what is written and are left out.                *)
(***************************************************************************)
EXTENDS Integers, Sequences, FiniteSets, TLC

VARIABLES
    remote,            \* register url -> register document served right now
    snapshot,          \* register url -> contents of register_fn on disk
    config,            \* resources section of the pygeoapi config file
    disk,              \* data files below data_dir (GeoJSON and STAC)
    pc,                \* position of _main
    args,              \* args.register
    force,             \* args.force
    reg_i,             \* index of register_url in args.register
    new_register,      \* process_register: the fetched register
    bb_i,              \* process_register: index of bblock_entry
    stac_dir,          \* process_register: local variable stac_dir
    output_resources,  \* process_register: local variable output_resources
    new_resources,     \* _main: local variable new_resources
    new_registers,     \* _main: local variable new_registers
    exit_status,       \* exit status of the last run
    written,           \* history: paths written by the current run
    reg_new,           \* history: files the register in progress created
    snap_at_start,     \* history: snapshot when the run started
    prev_config,       \* history: config before the last merge
    decision,          \* history: outcome of change detection per register
    bblock_out,        \* history: what the last processed building block wrote
    fail_cause,        \* history: why the run failed
    arg,               \* input of the function under test (function specs)
    ret                \* its result

pvars == <<remote, snapshot, config, disk, pc, args, force, reg_i,
           new_register, bb_i, stac_dir, output_resources, new_resources,
           new_registers, exit_status, written, reg_new, snap_at_start,
           prev_config, decision, bblock_out, fail_cause>>
fvars == <<arg, ret>>
vars == <<pvars, fvars>>

(***************************************************************************)
(* Bounds                                                                  *)
(***************************************************************************)
MaxSnippets == 3    \* snippets of one building block (function specs)
MaxGeoms == 3       \* geometry slots over all buckets (function specs)
MaxCoord == 1       \* coordinates range over 0..MaxCoord

(***************************************************************************)
(* Strings                                                                 *)
(***************************************************************************)
Digits == <<"0", "1", "2", "3", "4", "5", "6", "7", "8", "9">>
UnsafeToks == {" ", "#", "/"}

IsDigit(t) == \E i \in 1..10 : Digits[i] = t
DigitVal(t) == (CHOOSE i \in 1..10 : Digits[i] = t) - 1

RECURSIVE DigitsToNat(_)
DigitsToNat(s) ==
    IF s = <<>> THEN 0
    ELSE 10 * DigitsToNat(SubSeq(s, 1, Len(s) - 1)) + DigitVal(s[Len(s)])

RECURSIVE NatToDigits(_)
NatToDigits(n) ==
    IF n < 10 THEN <<Digits[n + 1]>>
    ELSE Append(NatToDigits(n \div 10), Digits[(n % 10) + 1])

RECURSIVE DropUnsafe(_)
DropUnsafe(s) ==
    IF s # <<>> /\ Head(s) \in UnsafeToks THEN DropUnsafe(Tail(s)) ELSE s

\* re.sub(r'[^a-zA-Z0-9._-]+', '_', s)
RECURSIVE safe_filename(_)
safe_filename(s) ==
    IF s = <<>> THEN <<>>
    ELSE IF Head(s) \in UnsafeToks
         THEN <<"_">> \o safe_filename(DropUnsafe(Tail(s)))
         ELSE <<Head(s)>> \o safe_filename(Tail(s))

\* re.match(r'(.+)_([0-9]+)$', item_id): the index of the "_" that splits
\* the two groups, 0 when there is no match
SuffixMatch(s) ==
    LET cand == {i \in 2..(Len(s) - 1) :
                    /\ s[i] = "_"
                    /\ \A j \in (i + 1)..Len(s) : IsDigit(s[j])}
    IN IF cand = {} THEN 0 ELSE CHOOSE i \in cand : \A j \in cand : j <= i

\* one pass of the body of the while loop
BumpItemId(item_id) ==
    LET m == SuffixMatch(item_id)
    IN IF m # 0
       THEN SubSeq(item_id, 1, m - 1) \o <<"_">>
            \o NatToDigits(DigitsToNat(SubSeq(item_id, m + 1, Len(item_id))) + 1)
       ELSE item_id \o <<"_", "2">>

\* while item_id in added_items: ...
RECURSIVE UniqueItemId(_, _)
UniqueItemId(item_id, added_items) ==
    IF item_id \in added_items
    THEN UniqueItemId(BumpItemId(item_id), added_items)
    ELSE item_id

(***************************************************************************)
(* Paths (pathlib)                                                         *)
(***************************************************************************)
\* name.rfind('.'), 1-based, 0 when absent
RFindDot(name) ==
    LET dots == {i \in 1..Len(name) : name[i] = "."}
    IN IF dots = {} THEN 0 ELSE CHOOSE i \in dots : \A j \in dots : j <= i

\* PurePath.suffix
PathSuffix(name) ==
    LET i == RFindDot(name)
    IN IF 1 < i /\ i < Len(name) THEN SubSeq(name, i, Len(name)) ELSE <<>>

\* PurePath.stem
PathStem(name) ==
    LET i == RFindDot(name)
    IN IF 1 < i /\ i < Len(name) THEN SubSeq(name, 1, i - 1) ELSE name

\* PurePath.with_suffix, on the last name of the path
with_suffix(path, suffix) ==
    LET name == path[Len(path)]
        old == PathSuffix(name)
    IN SubSeq(path, 1, Len(path) - 1)
       \o <<SubSeq(name, 1, Len(name) - Len(old)) \o suffix>>

\* PurePath.with_stem
with_stem(path, stem) ==
    LET name == path[Len(path)]
    IN SubSeq(path, 1, Len(path) - 1) \o <<stem \o PathSuffix(name)>>

STAC_SUBDIR == <<"stac">>
OUTPUT_SUBDIR == <<"bblocks">>

(***************************************************************************)
(* JSON values                                                             *)
(***************************************************************************)
None == <<>>
Some(v) == <<v>>

\* dict.get(field, default)
Get(d, field, default) == IF field \in DOMAIN d THEN d[field] ELSE default

\* a geometry that is absent or null
NoGeom == [type |-> "None", coordinates |-> <<>>]
Point(x, y) == [type |-> "Point", coordinates |-> <<<<x, y>>>>]
LineString(p, q) == [type |-> "LineString", coordinates |-> <<p, q>>]

Min(a, b) == IF a <= b THEN a ELSE b
Max(a, b) == IF a >= b THEN a ELSE b

RECURSIVE FoldCoord(_, _, _)
FoldCoord(cs, k, lower) ==
    IF Len(cs) = 1 THEN cs[1][k]
    ELSE IF lower THEN Min(cs[1][k], FoldCoord(Tail(cs), k, lower))
         ELSE Max(cs[1][k], FoldCoord(Tail(cs), k, lower))

\* shapely_shape(g).bounds of a geometry with coordinates
Bounds(g) ==
    <<FoldCoord(g.coordinates, 1, TRUE), FoldCoord(g.coordinates, 2, TRUE),
      FoldCoord(g.coordinates, 1, FALSE), FoldCoord(g.coordinates, 2, FALSE)>>

(***************************************************************************)
(* get_envelop_bbox                                                        *)
(***************************************************************************)
\* the fold with "if not envelope_bbox[k]" in place of "is None"
get_updated_bbox_falsy(envelope_bbox, g) ==
    LET bbox == Bounds(g)
        Unset(k) == envelope_bbox[k] = None \/ envelope_bbox[k] = Some(0)
    IN <<IF Unset(1) THEN Some(bbox[1])
         ELSE Some(Min(envelope_bbox[1][1], bbox[1])),
         IF Unset(2) THEN Some(bbox[2])
         ELSE Some(Min(envelope_bbox[2][1], bbox[2])),
         IF Unset(3) THEN Some(bbox[3])
         ELSE Some(Max(envelope_bbox[3][1], bbox[3])),
         IF Unset(4) THEN Some(bbox[4])
         ELSE Some(Max(envelope_bbox[4][1], bbox[4]))>>

get_updated_bbox(envelope_bbox, g) ==
    LET bbox == Bounds(g)
    IN <<IF envelope_bbox[1] = None THEN Some(bbox[1])
         ELSE Some(Min(envelope_bbox[1][1], bbox[1])),
         IF envelope_bbox[2] = None THEN Some(bbox[2])
         ELSE Some(Min(envelope_bbox[2][1], bbox[2])),
         IF envelope_bbox[3] = None THEN Some(bbox[3])
         ELSE Some(Max(envelope_bbox[3][1], bbox[3])),
         IF envelope_bbox[4] = None THEN Some(bbox[4])
         ELSE Some(Max(envelope_bbox[4][1], bbox[4]))>>

\* for feature in features: ...
RECURSIVE EnvelopeOfFeatures(_, _)
EnvelopeOfFeatures(envelope_bbox, features) ==
    IF features = <<>> THEN envelope_bbox
    ELSE LET geom == Get(Head(features), "geometry", NoGeom)
         IN EnvelopeOfFeatures(
                IF geom # NoGeom THEN get_updated_bbox(envelope_bbox, geom)
                ELSE envelope_bbox,
                Tail(features))

\* for entry in collections: ...
RECURSIVE EnvelopeOfEntries(_, _)
EnvelopeOfEntries(envelope_bbox, collections) ==
    IF collections = <<>> THEN envelope_bbox
    ELSE LET entry == Head(collections)
             geom == Get(entry, "geometry", NoGeom)
             features == Get(entry, "features", <<>>)
         IN EnvelopeOfEntries(
                IF geom # NoGeom THEN get_updated_bbox(envelope_bbox, geom)
                ELSE IF features # <<>>
                     THEN EnvelopeOfFeatures(envelope_bbox, features)
                     ELSE envelope_bbox,
                Tail(collections))

get_envelop_bbox(collections) ==
    EnvelopeOfEntries(<<None, None, None, None>>, collections)

(***************************************************************************)
(* Snippet classification (process_register, lines 91-117)                 *)
(***************************************************************************)
\* A snippet is [language, code, ref]; code is what json.loads gives:
\*   kind "malformed"  json.loads raises
\*   kind "str"        a JSON string, val
\*   kind "dict"       an object with type ("" when absent), stac_version
\*                     ("" when absent or falsy), id and geometry
Code(kind, val, type, stac_version, id, geometry) ==
    [kind |-> kind, val |-> val, type |-> type,
     stac_version |-> stac_version, id |-> id, geometry |-> geometry]
Snippet(language, code, ref) ==
    [language |-> language, code |-> code, ref |-> ref]

\* an insertion-ordered dict as a sequence of [key, value]
DictHas(d, key) == \E i \in 1..Len(d) : d[i].key = key
DictIndex(d, key) == CHOOSE i \in 1..Len(d) : d[i].key = key
DictGet(d, key) == d[DictIndex(d, key)].value
DictSet(d, key, value) ==
    IF DictHas(d, key)
    THEN [d EXCEPT ![DictIndex(d, key)] = [key |-> key, value |-> value]]
    ELSE Append(d, [key |-> key, value |-> value])
DictValues(d) == [i \in 1..Len(d) |-> d[i].value]
DictKeys(d) == [i \in 1..Len(d) |-> d[i].key]

EmptyClassification ==
    [status |-> "ok", bblock_feature_collections |-> <<>>,
     bblock_stac_items |-> <<>>]

\* the loop body without the stac_version test: every Feature is loose
ClassifySnippetNoStac(st, i, snippet) ==
    IF st.status # "ok" THEN st
    ELSE IF snippet.language # "json" THEN st
    ELSE LET snippet_code == snippet.code IN
    IF snippet_code.kind = "malformed" THEN [st EXCEPT !.status = "error"]
    ELSE IF snippet_code.kind # "dict" THEN st
    ELSE IF snippet_code.type = "" THEN st
    ELSE IF snippet_code.type = "Feature"
    THEN LET fcs == st.bblock_feature_collections
             fc == IF DictHas(fcs, <<>>)
                   THEN DictGet(fcs, <<>>)
                   ELSE [type |-> "FeatureCollection", features |-> <<>>]
         IN [st EXCEPT !.bblock_feature_collections =
                DictSet(fcs, <<>>,
                    [fc EXCEPT !.features = Append(@, snippet_code)])]
    ELSE st

\* the body of the inner loop for one snippet of example i (0-based)
ClassifySnippet(st, i, snippet) ==
    IF st.status # "ok" THEN st
    ELSE IF snippet.language # "json" THEN st
    ELSE LET snippet_code == snippet.code IN
    IF snippet_code.kind = "malformed" THEN [st EXCEPT !.status = "error"]
    ELSE IF snippet_code.kind # "dict" THEN st
    ELSE IF snippet_code.type = "" THEN st
    ELSE IF snippet_code.type = "Feature"
    THEN IF snippet_code.stac_version # ""
         THEN [st EXCEPT !.bblock_stac_items =
                  Append(@, [ref |-> snippet.ref, code |-> snippet_code])]
         ELSE LET fcs == st.bblock_feature_collections
                  fc == IF DictHas(fcs, <<>>)
                        THEN DictGet(fcs, <<>>)
                        ELSE [type |-> "FeatureCollection", features |-> <<>>]
              IN [st EXCEPT !.bblock_feature_collections =
                     DictSet(fcs, <<>>,
                         [fc EXCEPT !.features = Append(@, snippet_code)])]
    ELSE IF snippet_code.kind = "str" /\ snippet_code.val = "FeatureCollection"
    THEN [st EXCEPT !.bblock_feature_collections =
             DictSet(@, NatToDigits(i), snippet_code)]
    ELSE st

RECURSIVE ClassifyExample(_, _, _)
ClassifyExample(st, i, snippets) ==
    IF snippets = <<>> THEN st
    ELSE ClassifyExample(ClassifySnippet(st, i, Head(snippets)), i,
                         Tail(snippets))

RECURSIVE ClassifyExamples(_, _, _)
ClassifyExamples(st, i, examples) ==
    IF examples = <<>> THEN st
    ELSE ClassifyExamples(ClassifyExample(st, i, Head(examples)), i + 1,
                          Tail(examples))

Classify(bblock) == ClassifyExamples(EmptyClassification, 0, bblock.examples)

(***************************************************************************)
(* Resource builder (process_register, lines 119-243)                      *)
(***************************************************************************)
\* a building block with the given examples
BBlock(itemIdentifier, examples) ==
    [itemIdentifier |-> itemIdentifier, examples |-> examples]

\* collection_fn of one bucket
CollectionFn(output_dir, itemIdentifier, key) ==
    LET collection_fn ==
            with_suffix(output_dir \o <<itemIdentifier>>, <<".", "geojson">>)
    IN IF key # <<>>
       THEN with_stem(collection_fn,
                      PathStem(collection_fn[Len(collection_fn)])
                      \o <<"_">> \o key)
       ELSE collection_fn

\* the paths written by "for key, fc in bblock_feature_collections.items()"
GeoJsonFiles(output_dir, bblock, fcs) ==
    [i \in 1..Len(fcs) |->
        CollectionFn(output_dir, bblock.itemIdentifier, fcs[i].key)]

\* id_fn of every item, in order.  added_items is the set the loop tests;
\* the loop body never adds to it.
RECURSIVE StacItemIds(_, _)
StacItemIds(items, added_items) ==
    IF items = <<>> THEN <<>>
    ELSE LET item == Head(items).code
             item_id == UniqueItemId(safe_filename(item.id), added_items)
             id_fn == safe_filename(item_id)
         IN <<id_fn>> \o StacItemIds(Tail(items), added_items)

ItemFile(dir, id_fn) == dir \o <<id_fn, id_fn \o <<".", "json">>>>
ItemHref(id_fn) == <<<<".">>, id_fn, id_fn \o <<".", "json">>>>
CatalogFile(dir) == dir \o <<<<"catalog", ".", "json">>>>

Descriptor(type, bbox, data) ==
    [type |-> type, bbox |-> bbox, data |-> data, bblocks_register |-> None]

\* one iteration of "for bblock_entry in new_register['bblocks']" after the
\* fetch, from the values of the locals stac_dir and output_resources
ProcessBBlock(bblock, output_dir, stac_dir_in, resources_in) ==
    LET cls == Classify(bblock)
        fcs == cls.bblock_feature_collections
        items == cls.bblock_stac_items
        key == bblock.itemIdentifier
        geojson == IF fcs # <<>> THEN GeoJsonFiles(output_dir, bblock, fcs)
                   ELSE <<>>
        res1 == IF fcs # <<>>
                THEN (key :> Descriptor("collection",
                                        get_envelop_bbox(DictValues(fcs)),
                                        geojson)) @@ resources_in
                ELSE resources_in
        dir == IF items # <<>> THEN stac_dir_in \o <<key>> ELSE stac_dir_in
        ids == StacItemIds(items, {})
        item_files == [i \in 1..Len(ids) |-> ItemFile(dir, ids[i])]
        links == [i \in 1..Len(ids) |-> ItemHref(ids[i])]
        catalog == IF items # <<>> THEN <<CatalogFile(dir)>> ELSE <<>>
        res2 == IF items # <<>>
                THEN (key :> Descriptor("stac-collection", <<>>, <<dir>>))
                     @@ res1
                ELSE res1
    IN [status |-> cls.status,
        itemIdentifier |-> key,
        geojson |-> geojson,
        item_ids |-> ids,
        item_files |-> item_files,
        links |-> links,
        catalog |-> catalog,
        stac_dir |-> dir,
        output_resources |-> res2]

Range(f) == {f[i] : i \in DOMAIN f}
FilesOf(out) == Range(out.geojson) \cup Range(out.item_files) \cup Range(out.catalog)

(***************************************************************************)
(* Change detection and configuration merge                                *)
(***************************************************************************)
\* a register document
Register(bblocks) == [bblocks |-> bblocks]

\* the file register_fn: absent, not JSON, or a JSON document
NoFile == [is_file |-> FALSE, valid |-> FALSE, json |-> Register(<<>>)]
Corrupt == [is_file |-> TRUE, valid |-> FALSE, json |-> Register(<<>>)]
JsonFile(doc) == [is_file |-> TRUE, valid |-> TRUE, json |-> doc]

\* change detection that never compares: every register needs an update
NeedsUpdateAlways(file, fetched, force_flag) == "process"

\* lines 75-83: "process", "skip" (return False) or "error" (json.load raises)
NeedsUpdate(file, fetched, force_flag) ==
    IF ~file.is_file \/ force_flag THEN "process"
    ELSE IF ~file.valid THEN "error"
    ELSE IF file.json # fetched THEN "process"
    ELSE "skip"

\* get_register_name
get_register_name(url) ==
    safe_filename(url.hostname) \o <<"_">> \o safe_filename(url.path)

\* register_fn, relative to data_dir
register_fn(url) == <<<<"register", "-">> \o get_register_name(url)>>

CONFIG_FN == <<<<"pygeoapi", ".", "config", ".", "yml">>>>

\* lines 301-302
Tagged(resources, register_url) ==
    [k \in DOMAIN resources |->
        [resources[k] EXCEPT !.bblocks_register = Some(register_url)]]

\* {k: v for r in new_resources.values() for k, v in r.items()}
RECURSIVE Overlay(_)
Overlay(new) ==
    IF new = <<>> THEN <<>>
    ELSE new[Len(new)].value @@ Overlay(SubSeq(new, 1, Len(new) - 1))

\* the merge with the filter dropped: only the new descriptors survive
MergeConfigNewOnly(existing, new) == Overlay(new)

\* lines 310-318
MergeConfig(existing, new) ==
    LET processed == {Some(new[i].key) : i \in 1..Len(new)}
        keep == {k \in DOMAIN existing :
                    existing[k].bblocks_register \notin processed}
        all_resources == [k \in keep |-> existing[k]]
    IN Overlay(new) @@ all_resources

(***************************************************************************)
(* Function specifications: the pipeline is parked, arg is drawn from a    *)
(* bounded set of inputs and the one action applies the function to it.    *)
(* ret is <<>> before the call and <<result>> after it.                    *)
(***************************************************************************)
SeqsUpTo(S, n) == UNION {[1..k -> S] : k \in 0..n}

RECURSIVE Flatten(_)
Flatten(ss) == IF ss = <<>> THEN <<>> ELSE Head(ss) \o Flatten(Tail(ss))

\* -- snippets -----------------------------------------------------------
NoCode == Code("malformed", "", "", "", <<>>, NoGeom)
Feature(id, g) == Code("dict", "", "Feature", "", id, g)
StacItem(id, g) == Code("dict", "", "Feature", "1.0.0", id, g)

SnippetUniverse ==
    { Snippet("json", Feature(<<"f">>, Point(0, 0)), ""),
      Snippet("json", Feature(<<"g">>, NoGeom), ""),
      Snippet("json", StacItem(<<"site">>, Point(0, 0)), "https://x/y/"),
      Snippet("json", StacItem(<<"t">>, NoGeom), ""),
      Snippet("json", Code("dict", "", "Collection", "1.0.0", <<"c">>, NoGeom), ""),
      Snippet("json", Code("dict", "", "FeatureCollection", "", <<>>, NoGeom), ""),
      Snippet("json", Code("dict", "", "", "1.0.0", <<>>, NoGeom), ""),
      Snippet("json", Code("str", "FeatureCollection", "", "", <<>>, NoGeom), ""),
      Snippet("json", NoCode, ""),
      Snippet("turtle", StacItem(<<"u">>, NoGeom), "") }

\* a building block with the snippets ss in two examples, cut after c
TwoExamples(ss, c) ==
    BBlock(<<"ogc", ".", "x">>, <<SubSeq(ss, 1, c), SubSeq(ss, c + 1, Len(ss))>>)

Parked ==
    /\ remote = <<>> /\ snapshot = <<>> /\ config = <<>> /\ disk = {}
    /\ pc = "parked" /\ args = <<>> /\ force = FALSE /\ reg_i = 0
    /\ new_register = <<>> /\ bb_i = 0 /\ stac_dir = <<>>
    /\ output_resources = <<>> /\ new_resources = <<>>
    /\ new_registers = <<>> /\ exit_status = 0 /\ written = {}
    /\ reg_new = {} /\ snap_at_start = <<>> /\ prev_config = <<>>
    /\ decision = <<>> /\ bblock_out = <<>> /\ fail_cause = ""

InitClassify ==
    /\ Parked
    /\ \E ss \in SeqsUpTo(SnippetUniverse, MaxSnippets) :
           \E c \in 0..Len(ss) : arg = TwoExamples(ss, c)
    /\ ret = <<>>
CallClassify == ret = <<>> /\ ret' = <<Classify(arg)>> /\ UNCHANGED <<arg, pvars>>
NextClassify == CallClassify
SpecClassify == InitClassify /\ [][NextClassify]_vars

\* -- envelopes ----------------------------------------------------------
Coords == 0..MaxCoord
Geoms ==
    {NoGeom} \cup {Point(x, y) : x \in Coords, y \in Coords}
    \cup {LineString(<<0, 0>>, <<MaxCoord, MaxCoord>>),
          LineString(<<0, MaxCoord>>, <<MaxCoord, 0>>)}

Features(gs) == [i \in 1..Len(gs) |-> Feature(<<>>, gs[i])]
FeatureCollection(features) ==
    [type |-> "FeatureCollection", features |-> features]

\* buckets over the geometries gs: a collection of the first c, then the
\* rest as one collection, as bare features, or as the features of an
\* entry that has a geometry of its own
Buckets(gs, c, shape) ==
    LET front == Features(SubSeq(gs, 1, c))
        rest == Features(SubSeq(gs, c + 1, Len(gs)))
    IN <<FeatureCollection(front)>> \o
       CASE shape = "collection" -> <<FeatureCollection(rest)>>
         [] shape = "features" -> rest
         [] shape = "both" ->
              IF rest = <<>> THEN <<>>
              ELSE <<[type |-> "Feature", geometry |-> rest[1].geometry,
                      features |-> Tail(rest)]>>

InitEnvelope ==
    /\ Parked
    /\ \E gs \in SeqsUpTo(Geoms, MaxGeoms) :
           \E c \in 0..Len(gs), shape \in {"collection", "features", "both"} :
               arg = Buckets(gs, c, shape)
    /\ ret = <<>>
CallEnvelope == ret = <<>> /\ ret' = <<get_envelop_bbox(arg)>> /\ UNCHANGED <<arg, pvars>>
NextEnvelope == CallEnvelope
SpecEnvelope == InitEnvelope /\ [][NextEnvelope]_vars

(***************************************************************************)
(* The pipeline: _main and process_register                                *)
(***************************************************************************)
\* register urls; their snapshot file names differ
U1 == [hostname |-> <<"x">>, path |-> <<"/", "a", ".", "json">>]
U2 == [hostname |-> <<"x">>, path |-> <<"/", "b", ".", "json">>]
RegisterUrls == {U1, U2}
\* a register that no run processes, recorded in the existing configuration
U0 == [hostname |-> <<"x">>, path |-> <<"/", "old", ".", "json">>]

\* the building-block documents behind the json-full urls
DocUrls == {"a", "b", "m"}
DocTable ==
    [u \in DocUrls |->
        CASE u = "a" ->
               BBlock(<<"ogc", ".", "a">>,
                   << <<Snippet("json", Feature(<<"f">>, Point(0, 1)), "")>>,
                      <<Snippet("json", StacItem(<<"site">>, NoGeom), ""),
                        Snippet("json", StacItem(<<"site">>, NoGeom), "")>> >>)
          [] u = "b" ->
               BBlock(<<"ogc", ".", "b">>,
                   << <<Snippet("json", Feature(<<"g">>, Point(1, 0)), ""),
                        Snippet("json", StacItem(<<"t", " ", "1">>, NoGeom), "")>> >>)
          [] u = "m" ->
               BBlock(<<"m">>, << <<Snippet("json", NoCode, "")>> >>)]
fetch_json(url) == DocTable[url]

\* register documents: any list of different building blocks out of a and
\* b, and one that lists after a the document with the malformed snippet
WellFormedUrls == {"a", "b"}
Contents ==
    {Register(bs) : bs \in {q \in SeqsUpTo(WellFormedUrls, Cardinality(WellFormedUrls)) :
                               \A i, j \in 1..Len(q) : q[i] = q[j] => i = j}}
    \cup {Register(<<"a", "m">>)}

\* args.register: one register or both (the order U2, U1 is the order
\* U1, U2 with the registers renamed)
ArgLists == {<<U1>>, <<U2>>, <<U1, U2>>}

\* the resources of the configuration file before the first run
UserEntry(tag) ==
    [type |-> "user", bbox |-> <<>>, data |-> <<>>, bblocks_register |-> tag]
InitConfigs ==
    { <<>>,
      (<<"lakes">> :> UserEntry(None)) @@ (<<"ogc", ".", "a">> :> UserEntry(Some(U0))) }

Init ==
    /\ remote \in [RegisterUrls -> Contents]
    /\ snapshot \in [{register_fn(u) : u \in RegisterUrls} -> {NoFile, Corrupt}]
    /\ config \in InitConfigs
    /\ disk = {}
    /\ pc = "idle"
    /\ args = <<>> /\ force = FALSE /\ reg_i = 0
    /\ new_register = Register(<<>>) /\ bb_i = 0 /\ stac_dir = <<>>
    /\ output_resources = <<>> /\ new_resources = <<>>
    /\ new_registers = <<>> /\ exit_status = 0 /\ written = {}
    /\ reg_new = {} /\ snap_at_start = snapshot /\ prev_config = config
    /\ decision = <<>> /\ bblock_out = <<>> /\ fail_cause = ""
    /\ arg = <<>> /\ ret = <<>>

\* _main up to line 288
StartRun ==
    /\ pc = "idle"
    /\ \E a \in ArgLists, f \in BOOLEAN : args' = a /\ force' = f
    /\ pc' = "register" /\ reg_i' = 1
    /\ new_register' = Register(<<>>) /\ bb_i' = 0 /\ stac_dir' = <<>>
    /\ output_resources' = <<>> /\ new_resources' = <<>>
    /\ new_registers' = <<>> /\ exit_status' = 0 /\ written' = {}
    /\ reg_new' = {} /\ snap_at_start' = snapshot /\ prev_config' = config
    /\ decision' = <<>> /\ bblock_out' = <<>> /\ fail_cause' = ""
    /\ UNCHANGED <<remote, snapshot, config, disk, fvars>>

\* an uncaught exception ends the run
Raise(cause) ==
    /\ pc' = "failed" /\ fail_cause' = cause /\ exit_status' = 1

\* line 70 raises
RegisterFetchFails ==
    /\ pc = "register" /\ reg_i <= Len(args)
    /\ Raise("fetch_register")
    /\ reg_new' = {}
    /\ UNCHANGED <<remote, snapshot, config, disk, args, force, reg_i,
                   new_register, bb_i, stac_dir, output_resources,
                   new_resources, new_registers, written,
                   snap_at_start, prev_config, decision, bblock_out, fvars>>

\* lines 290-291 and 70-87
BeginRegister ==
    /\ pc = "register" /\ reg_i <= Len(args)
    /\ LET url == args[reg_i]
           fetched == remote[url]
           d == NeedsUpdate(snapshot[register_fn(url)], fetched, force)
       IN /\ new_register' = fetched
          /\ decision' = (url :> [outcome |-> d, fetched |-> fetched]) @@ decision
          /\ reg_new' = {}
          /\ CASE d = "error" ->
                    /\ Raise("snapshot")
                    /\ UNCHANGED <<reg_i, bb_i, stac_dir, output_resources>>
               [] d = "skip" ->
                    /\ reg_i' = reg_i + 1
                    /\ UNCHANGED <<pc, fail_cause, exit_status, bb_i, stac_dir,
                                   output_resources>>
               [] d = "process" ->
                    /\ pc' = "bblock" /\ bb_i' = 1
                    /\ stac_dir' = <<STAC_SUBDIR>>
                    /\ output_resources' = <<>>
                    /\ UNCHANGED <<reg_i, fail_cause, exit_status>>
    /\ UNCHANGED <<remote, snapshot, config, disk, args, force, new_resources,
                   new_registers, written, snap_at_start, prev_config,
                   bblock_out, fvars>>

\* line 90 raises
BBlockFetchFails ==
    /\ pc = "bblock" /\ bb_i <= Len(new_register.bblocks)
    /\ Raise("fetch_bblock")
    /\ UNCHANGED <<remote, snapshot, config, disk, args, force, reg_i,
                   new_register, bb_i, stac_dir, output_resources,
                   new_resources, new_registers, written, reg_new,
                   snap_at_start, prev_config, decision, bblock_out, fvars>>

\* lines 90-243 for one bblock_entry
BBlockStep ==
    /\ pc = "bblock" /\ bb_i <= Len(new_register.bblocks)
    /\ LET bblock == fetch_json(new_register.bblocks[bb_i])
           out == ProcessBBlock(bblock, <<OUTPUT_SUBDIR>>, stac_dir,
                                output_resources)
       IN IF out.status = "error"
          THEN /\ Raise("parse_snippet")
               /\ UNCHANGED <<disk, written, reg_new, bb_i, stac_dir,
                              output_resources, bblock_out>>
          ELSE /\ disk' = disk \cup FilesOf(out)
               /\ written' = written \cup FilesOf(out)
               /\ reg_new' = reg_new \cup (FilesOf(out) \ disk)
               /\ bb_i' = bb_i + 1
               /\ stac_dir' = out.stac_dir
               /\ output_resources' = out.output_resources
               /\ bblock_out' = <<[out EXCEPT !.output_resources = <<>>]>>
               /\ UNCHANGED <<pc, fail_cause, exit_status>>
    /\ UNCHANGED <<remote, snapshot, config, args, force, reg_i, new_register,
                   new_resources, new_registers, snap_at_start, prev_config,
                   decision, fvars>>

\* line 245 and lines 298-302
EndRegister ==
    /\ pc = "bblock" /\ bb_i > Len(new_register.bblocks)
    /\ LET url == args[reg_i]
       IN /\ new_resources' =
                 DictSet(new_resources, url, Tagged(output_resources, url))
          /\ new_registers' =
                 DictSet(new_registers, register_fn(url), new_register)
    /\ reg_i' = reg_i + 1 /\ pc' = "register"
    /\ UNCHANGED <<remote, snapshot, config, disk, args, force, new_register,
                   bb_i, stac_dir, output_resources, exit_status, written,
                   reg_new, snap_at_start, prev_config, decision, bblock_out,
                   fail_cause, fvars>>

\* lines 304-305
ExitNoChange ==
    /\ pc = "register" /\ reg_i > Len(args)
    /\ new_resources = <<>>
    /\ pc' = "done" /\ exit_status' = 1
    /\ UNCHANGED <<remote, snapshot, config, disk, args, force, reg_i,
                   new_register, bb_i, stac_dir, output_resources,
                   new_resources, new_registers, written, reg_new,
                   snap_at_start, prev_config, decision, bblock_out,
                   fail_cause, fvars>>

\* lines 307-326
MergeAndSave ==
    /\ pc = "register" /\ reg_i > Len(args)
    /\ new_resources # <<>>
    /\ prev_config' = config
    /\ config' = MergeConfig(config, new_resources)
    /\ snapshot' = [fn \in DOMAIN snapshot |->
                       IF DictHas(new_registers, fn)
                       THEN JsonFile(DictGet(new_registers, fn))
                       ELSE snapshot[fn]]
    /\ written' = written \cup {CONFIG_FN} \cup Range(DictKeys(new_registers))
    /\ pc' = "done" /\ exit_status' = 0
    /\ UNCHANGED <<remote, disk, args, force, reg_i, new_register, bb_i,
                   stac_dir, output_resources, new_resources, new_registers,
                   reg_new, snap_at_start, decision, bblock_out, fail_cause,
                   fvars>>

\* the process is gone: only the files remain
Exit ==
    /\ pc \in {"done", "failed"}
    /\ pc' = "idle"
    /\ args' = <<>> /\ force' = FALSE /\ reg_i' = 0
    /\ new_register' = Register(<<>>) /\ bb_i' = 0 /\ stac_dir' = <<>>
    /\ output_resources' = <<>> /\ new_resources' = <<>>
    /\ new_registers' = <<>> /\ exit_status' = 0 /\ written' = {}
    /\ reg_new' = {} /\ snap_at_start' = snapshot /\ prev_config' = config
    /\ decision' = <<>> /\ bblock_out' = <<>> /\ fail_cause' = ""
    /\ UNCHANGED <<remote, snapshot, config, disk, fvars>>

\* between two runs a register's publisher replaces the register document
RemoteUpdate ==
    /\ pc = "idle"
    /\ \E u \in RegisterUrls, c \in Contents :
          /\ c # remote[u]
          /\ remote' = [remote EXCEPT ![u] = c]
    /\ UNCHANGED <<snapshot, config, disk, pc, args, force, reg_i,
                   new_register, bb_i, stac_dir, output_resources,
                   new_resources, new_registers, exit_status, written,
                   reg_new, snap_at_start, prev_config, decision, bblock_out,
                   fail_cause, fvars>>

Next ==
    \/ StartRun
    \/ RegisterFetchFails
    \/ BeginRegister
    \/ BBlockFetchFails
    \/ BBlockStep
    \/ EndRegister
    \/ ExitNoChange
    \/ MergeAndSave
    \/ Exit
    \/ RemoteUpdate

Spec == Init /\ [][Next]_vars

(***************************************************************************)
(* Claims about the functions                                              *)
(***************************************************************************)
SetMin(S) == CHOOSE x \in S : \A y \in S : x <= y
SetMax(S) == CHOOSE x \in S : \A y \in S : x >= y

\* the geometries the fold reads: an entry's own geometry, else those of
\* its features
Contributing(collections) ==
    {g \in Geoms \ {NoGeom} :
        \E i \in 1..Len(collections) :
            LET entry == collections[i]
                own == Get(entry, "geometry", NoGeom)
                features == Get(entry, "features", <<>>)
            IN \/ own = g
               \/ /\ own = NoGeom
                  /\ \E j \in 1..Len(features) : features[j].geometry = g}

\* C9: the envelope is (min minX, min minY, max maxX, max maxY) over the
\* contributing geometries, and (None, None, None, None) when there is none.
C9_EnvelopeIsMinMax ==
    ret # <<>> =>
        LET G == Contributing(arg)
        IN IF G = {} THEN ret[1] = <<None, None, None, None>>
           ELSE ret[1] = <<Some(SetMin({Bounds(g)[1] : g \in G})),
                           Some(SetMin({Bounds(g)[2] : g \in G})),
                           Some(SetMax({Bounds(g)[3] : g \in G})),
                           Some(SetMax({Bounds(g)[4] : g \in G}))>>

\* an envelope computed from three different geometries in two buckets,
\* strictly larger than the bounds of the first of them
C9_Witness ==
    /\ ret # <<>>
    /\ Cardinality(Contributing(arg)) >= 3
    /\ Len(arg) = 2
    /\ arg[1].features # <<>>
    /\ ret[1][1] = Some(0) /\ ret[1][3] = Some(MaxCoord)
    /\ Bounds(arg[1].features[1].geometry)[1] > 0

Participates(s) ==
    s.language = "json" /\ s.code.kind = "dict" /\ s.code.type # ""
IsLooseFeature(s) ==
    Participates(s) /\ s.code.type = "Feature" /\ s.code.stac_version = ""
HasStacVersion(s) == Participates(s) /\ s.code.stac_version # ""
IsStacFeature(s) == HasStacVersion(s) /\ s.code.type = "Feature"

CodesOf(ss) == [i \in 1..Len(ss) |-> ss[i].code]
StacRecordsOf(ss) ==
    [i \in 1..Len(ss) |-> [ref |-> ss[i].ref, code |-> ss[i].code]]
EmptyKeyFeatures(fcs) ==
    IF DictHas(fcs, <<>>) THEN DictGet(fcs, <<>>).features ELSE <<>>

\* what C8 says of every building block, with StacTest deciding which
\* snippets are the ones "with a truthy stac_version"
Partitioned(bblock, r, StacTest(_)) ==
    LET flat == Flatten(bblock.examples)
        fcs == r.bblock_feature_collections
    IN /\ EmptyKeyFeatures(fcs) = CodesOf(SelectSeq(flat, IsLooseFeature))
       /\ \A i \in 1..Len(fcs) : fcs[i].key = <<>>
       /\ r.bblock_stac_items = StacRecordsOf(SelectSeq(flat, StacTest))
       /\ \A i \in 1..Len(fcs) :
              \A j \in 1..Len(fcs[i].value.features) :
                  fcs[i].value.features[j].stac_version = ""

\* C8 as stated: every snippet with a truthy stac_version is in the STAC
\* item list, in encounter order, and every Feature without one is in the
\* empty-key bucket, in encounter order.
C8_AsStated ==
    (ret # <<>> /\ ret[1].status = "ok") =>
        Partitioned(arg, ret[1], HasStacVersion)

\* C8 amended: every snippet of type Feature with a truthy stac_version is
\* in the STAC item list, in encounter order, and in no bucket; every
\* Feature without one is in the single empty-key bucket, in encounter order.
C8_FeaturesPartitioned ==
    (ret # <<>> /\ ret[1].status = "ok") =>
        Partitioned(arg, ret[1], IsStacFeature)

\* two loose features and a STAC item between them, over both examples
C8_Witness ==
    /\ ret # <<>> /\ ret[1].status = "ok"
    /\ Len(EmptyKeyFeatures(ret[1].bblock_feature_collections)) = 2
    /\ Len(ret[1].bblock_stac_items) = 1
    /\ Len(arg.examples[1]) = 2 /\ Len(arg.examples[2]) = 1
    /\ IsStacFeature(arg.examples[1][2])

(***************************************************************************)
(* Claims about the pipeline                                               *)
(***************************************************************************)
Distinct(q) == \A i, j \in 1..Len(q) : q[i] = q[j] => i = j

\* C1: the items of one catalog get distinct safe identifiers, so no two of
\* them share an output file or a link href.
C1_DistinctItems ==
    bblock_out # <<>> =>
        /\ Distinct(bblock_out[1].item_ids)
        /\ Distinct(bblock_out[1].item_files)
        /\ Distinct(bblock_out[1].links)

\* C4: the catalog of every building block is <stac-dir>/<itemIdentifier>/
\* catalog.json and its items are <stac-dir>/<itemIdentifier>/<id>/<id>.json,
\* with <stac-dir> the fixed root, whatever was processed before.
C4_CatalogUnderStacRoot ==
    (bblock_out # <<>> /\ bblock_out[1].catalog # <<>>) =>
        LET o == bblock_out[1]
            root == <<STAC_SUBDIR, o.itemIdentifier>>
        IN /\ o.catalog[1] = CatalogFile(root)
           /\ \A i \in 1..Len(o.item_files) :
                  o.item_files[i] = ItemFile(root, o.item_ids[i])

\* C5: the empty-key bucket is written to
\* <output-dir>/<itemIdentifier>.geojson, the whole identifier kept.
C5_GeoJsonNamedByIdentifier ==
    (bblock_out # <<>> /\ bblock_out[1].geojson # <<>>) =>
        bblock_out[1].geojson[1] =
            <<OUTPUT_SUBDIR, bblock_out[1].itemIdentifier \o <<".", "geojson">>>>

\* C6: when a fetch or a parse fails, the register being processed has left
\* no new data file, and the configuration and the snapshots are as before.
C6_NoPartialOutput ==
    (pc = "failed"
        /\ fail_cause \in {"fetch_register", "fetch_bblock", "parse_snippet"}) =>
        /\ reg_new = {}
        /\ config = prev_config
        /\ snapshot = snap_at_start

\* C7: without force, a register whose snapshot exists but cannot be
\* compared is reprocessed.
C7_UnreadableSnapshotReprocessed ==
    \A u \in DOMAIN decision :
        (snap_at_start[register_fn(u)] = Corrupt /\ ~force) =>
            decision[u].outcome = "process"

YieldsResource(bblock) ==
    LET cls == Classify(bblock)
    IN cls.status = "ok"
       /\ (cls.bblock_feature_collections # <<>> \/ cls.bblock_stac_items # <<>>)

\* C10: between runs, a register whose snapshot equals its current document
\* has, for each of its building blocks that yields a resource, a descriptor
\* under the itemIdentifier tagged with that register.
C10_SnapshotImpliesConfigured ==
    pc \in {"idle", "done", "failed"} =>
        \A u \in RegisterUrls :
            snapshot[register_fn(u)] = JsonFile(remote[u]) =>
                \A i \in 1..Len(remote[u].bblocks) :
                    LET bblock == fetch_json(remote[u].bblocks[i])
                        key == bblock.itemIdentifier
                    IN YieldsResource(bblock) =>
                           /\ key \in DOMAIN config
                           /\ config[key].bblocks_register = Some(u)

ArgSet == Range(args)
Processed == {Some(u) : u \in {v \in DOMAIN decision : decision[v].outcome = "process"}}
NewKeys == UNION {DOMAIN new_resources[i].value : i \in 1..Len(new_resources)}
Foreign(k) == prev_config[k].bblocks_register \notin Processed

\* C2 as stated: every entry that is untagged or tagged with a register not
\* processed in this run is in the written configuration, unchanged.
C2_AsStated ==
    (pc = "done" /\ exit_status = 0) =>
        \A k \in DOMAIN prev_config :
            Foreign(k) => (k \in DOMAIN config /\ config[k] = prev_config[k])

\* C2 amended: such an entry is in the written configuration unchanged
\* unless a newly built descriptor has its key; then the new descriptor,
\* tagged with a processed register, is under that key.
C2_ForeignEntriesKeptUnlessOverlaid ==
    (pc = "done" /\ exit_status = 0) =>
        \A k \in DOMAIN prev_config :
            Foreign(k) =>
                /\ k \in DOMAIN config
                /\ IF k \in NewKeys
                   THEN config[k].bblocks_register \in Processed
                   ELSE config[k] = prev_config[k]

\* a run of one register that kept an untagged entry and a descriptor a
\* previous run built from the other register, and replaced its own
C2_Witness ==
    /\ pc = "done" /\ exit_status = 0
    /\ Processed = {Some(U1)}
    /\ \E k \in DOMAIN prev_config \ NewKeys :
           /\ prev_config[k].bblocks_register = Some(U2)
           /\ config[k] = prev_config[k]
    /\ \E k \in DOMAIN prev_config \ NewKeys :
           /\ prev_config[k].bblocks_register = None
           /\ config[k] = prev_config[k]
    /\ \E k \in DOMAIN prev_config :
           prev_config[k].bblocks_register = Some(U1)

\* C3: (a) a run that ends with status 0 leaves, for each of its registers,
\* a snapshot equal to the document it fetched; (b) a run without force
\* whose registers all have a snapshot equal to the fetched document writes
\* nothing and ends with status 1, and nothing but a failed register fetch
\* stops it; (c) with force every register examined is reprocessed.
C3_RerunWritesNothing ==
    /\ (pc = "done" /\ exit_status = 0) =>
           \A u \in ArgSet :
               snapshot[register_fn(u)] = JsonFile(decision[u].fetched)
    /\ (pc \in {"done", "failed"} /\ ~force
           /\ \A u \in DOMAIN decision :
                  snap_at_start[register_fn(u)] = JsonFile(decision[u].fetched)) =>
           /\ written = {}
           /\ config = prev_config
           /\ snapshot = snap_at_start
           /\ pc = "done" => exit_status = 1
           /\ pc = "failed" => fail_cause = "fetch_register"
    /\ force => \A u \in DOMAIN decision : decision[u].outcome = "process"

\* the second of two runs over both registers, nothing written, status 1
C3_Witness ==
    /\ pc = "done" /\ exit_status = 1 /\ ~force
    /\ ArgSet = RegisterUrls
    /\ written = {}
    /\ \A u \in RegisterUrls :
           /\ decision[u].outcome = "skip"
           /\ remote[u].bblocks # <<>>
           /\ snap_at_start[register_fn(u)] = JsonFile(remote[u])

====
